---- MODULE Spec2Model ----
(***************************************************************************)
(* Model of the customer-analysis script (src/agent.py) and of the toy     *)
(* combat class Po (src/po.py).                                            *)
(*                                                                         *)
(* The script is one straight-line procedure.  Its statement groups are    *)
(* the actions of the pipeline: Load, NormalizeColumns, ParseDates,        *)
(* CoerceNumeric, Tenure, Rfm, AgeGroup, Slot1 .. Slot6, Finish.  An       *)
(* uncaught Python exception ends the run in pc = "raised".                *)
(*                                                                         *)
(* Column labels are TLA+ strings, handled character by character.         *)
(* Floating-point quantities of the RFM score are exact multiples of       *)
(* 1e-8 (or of its powers), written little-endian in base 1e8.             *)
(***************************************************************************)
EXTENDS Integers, Sequences, FiniteSets, TLC

VARIABLES
    fileExists,   \* whether CSV_FILE exists on disk
    csv,          \* content of the file: raw header and raw cells
    pc,           \* position of the script
    df,           \* the DataFrame df
    out,          \* lines printed to standard output
    exitCode,     \* process exit status (-1 while running)
    raised,       \* uncaught exception, "none" if there is none
    today,        \* pd.Timestamp.now() read by the tenure step (-1 before)
    slots,        \* the six axes of the 3x2 figure
    po,           \* Po objects: name -> [name, health, attack_power]
    attacks,      \* number of attack calls made so far
    lastAttack    \* attacker and target named by the last printed line

vars == <<fileExists, csv, pc, df, out, exitCode, raised, today, slots,
          po, attacks, lastAttack>>

pipeVars == <<fileExists, csv, pc, df, out, exitCode, raised, today, slots>>
poVars == <<po, attacks, lastAttack>>

----------------------------------------------------------------------------
(* Bounds of the model *)

MaxCols == 3        \* columns of a file in the structural family
MaxRows == 1        \* rows of a file in the structural family
MaxDateCols == 2    \* date-like columns in the tenure family
MaxDateRows == 1    \* rows in the tenure family
MaxRfmRows == 2     \* rows in the RFM family
MaxAgeRows == 2     \* rows in the age family
MaxLabelLen == 3    \* characters of a raw label in the label family
MaxAttacks == 6     \* attack calls in a run of the combat class
TicksPerDay == 2    \* clock resolution: timestamps count ticks

----------------------------------------------------------------------------
(* Strings as sequences of characters *)

Range(s) == {s[i] : i \in DOMAIN s}

CharAt(s, i) == SubSeq(s, i, i)

Contains(s, sub) ==
    \E i \in 1..(Len(s) - Len(sub) + 1) : SubSeq(s, i, i + Len(sub) - 1) = sub

\* the letters a-z, the digits 0-9, and str.lower on the letters A-Z
LowerLetters ==
    {"a", "b", "c", "d", "e", "f", "g", "h", "i", "j", "k", "l", "m", "n", "o", "p", "q", "r", "s", "t", "u", "v", "w", "x", "y", "z"}

Digits == {"0", "1", "2", "3", "4", "5", "6", "7", "8", "9"}

Lowered ==
    [A |-> "a", B |-> "b", C |-> "c", D |-> "d", E |-> "e", F |-> "f", G |-> "g",
     H |-> "h", I |-> "i", J |-> "j", K |-> "k", L |-> "l", M |-> "m", N |-> "n",
     O |-> "o", P |-> "p", Q |-> "q", R |-> "r", S |-> "s", T |-> "t", U |-> "u",
     V |-> "v", W |-> "w", X |-> "x", Y |-> "y", Z |-> "z"]

IsSpace(c) == c \in {" ", "\t", "\n", "\r"}

\* str.strip(): drop leading and trailing whitespace
RECURSIVE LStrip(_)
LStrip(s) == IF Len(s) > 0 /\ IsSpace(CharAt(s, 1)) THEN LStrip(Tail(s)) ELSE s

RECURSIVE RStrip(_)
RStrip(s) ==
    IF Len(s) > 0 /\ IsSpace(CharAt(s, Len(s)))
    THEN RStrip(SubSeq(s, 1, Len(s) - 1))
    ELSE s

StrStrip(s) == RStrip(LStrip(s))

LowerChar(c) == IF c \in DOMAIN Lowered THEN Lowered[c] ELSE c

\* str.lower()
RECURSIVE StrLower(_)
StrLower(s) == IF Len(s) = 0 THEN "" ELSE LowerChar(CharAt(s, 1)) \o StrLower(Tail(s))

\* str.replace(" ", "_")
RECURSIVE ReplaceSpaces(_)
ReplaceSpaces(s) ==
    IF Len(s) = 0 THEN ""
    ELSE (IF CharAt(s, 1) = " " THEN "_" ELSE CharAt(s, 1)) \o ReplaceSpaces(Tail(s))

IsCanonChar(c) == c \in LowerLetters \/ c \in Digits \/ c = "_"

\* A slip of the character filter: a character outside [a-z0-9_] is
\* replaced by a space instead of being deleted.
RECURSIVE StripIllegalAsSpace(_)
StripIllegalAsSpace(s) ==
    IF Len(s) = 0 THEN ""
    ELSE (IF IsCanonChar(CharAt(s, 1)) THEN CharAt(s, 1) ELSE " ")
         \o StripIllegalAsSpace(Tail(s))

\* str.replace(r"[^a-z0-9_]", "", regex=True)
RECURSIVE StripIllegal(_)
StripIllegal(s) ==
    IF Len(s) = 0 THEN ""
    ELSE (IF IsCanonChar(CharAt(s, 1)) THEN CharAt(s, 1) ELSE "")
         \o StripIllegal(Tail(s))

\* The whole chain applied to one label
NormalizeLabel(s) == StripIllegal(ReplaceSpaces(StrLower(StrStrip(s))))

NormalizeLabels(cols) == [i \in DOMAIN cols |-> NormalizeLabel(cols[i])]

----------------------------------------------------------------------------
(* Cells and tables *)

\* A cell is a tagged value.  In the file: "num" a numeral of value v,
\* "date" a date string denoting the timestamp of tick v, "text" any other
\* text, "empty" an empty field.  In the DataFrame also: "nan" (NaN / NaT),
\* "ts" a Timestamp at tick v, "dec1" a float with one decimal, v tenths,
\* "cat" the v-th category of pd.cut.
Cell(k, x) == [kind |-> k, v |-> x]

NaN == Cell("nan", 0)
TextCell == Cell("text", 0)
EmptyCell == Cell("empty", 0)

CSV_FILE == "customers.csv"

NoFile == [columns |-> <<>>, n |-> 0, data |-> <<>>]

NoTable == [built |-> FALSE, columns |-> <<>>, dtypes |-> <<>>, n |-> 0, data |-> <<>>]

HasCol(t, c) == \E i \in DOMAIN t.columns : t.columns[i] = c

ColIndex(t, c) == CHOOSE i \in DOMAIN t.columns : t.columns[i] = c

\* df[c]
Column(t, c) == t.data[ColIndex(t, c)]

DType(t, c) == t.dtypes[ColIndex(t, c)]

\* df[c] = values: an existing column is replaced in place, a new one is
\* appended
SetCol(t, c, dtype, values) ==
    IF HasCol(t, c)
    THEN [t EXCEPT !.dtypes[ColIndex(t, c)] = dtype, !.data[ColIndex(t, c)] = values]
    ELSE [t EXCEPT !.columns = Append(@, c), !.dtypes = Append(@, dtype),
                   !.data = Append(@, values)]

\* pd.read_csv on one field: an empty field is NaN
ReadCell(c) == IF c.kind = "empty" THEN NaN ELSE c

\* dtype inference of pd.read_csv: a column of numerals and empty fields is
\* numeric, any other column (also one without rows) holds objects
InferDType(col) ==
    IF Len(col) > 0 /\ \A i \in DOMAIN col : col[i].kind \in {"num", "empty"}
    THEN "float64" ELSE "object"

\* pd.read_csv(CSV_FILE)
ReadCsv(f) ==
    [built |-> TRUE,
     columns |-> f.columns,
     dtypes |-> [i \in DOMAIN f.columns |-> InferDType(f.data[i])],
     n |-> f.n,
     data |-> [i \in DOMAIN f.columns |-> [r \in 1..f.n |-> ReadCell(f.data[i][r])]]]

\* The date-column guess of the script
IsDateLabel(col) ==
    Contains(col, "date") \/ Contains(col, "joined") \/ Contains(col, "signup")

\* pd.to_datetime(errors='coerce') on one value of a column of date strings,
\* other text and missing values
ToDatetimeCell(c) == IF c.kind = "date" THEN Cell("ts", c.v) ELSE NaN

\* pd.to_numeric(errors='coerce') on one value
ToNumericCell(c) == IF c.kind = "num" THEN c ELSE NaN

num_cols == <<"age", "annual_spend", "spend", "total_spend", "orders",
              "purchases", "tenure", "days_as_customer">>

tenure_cols == <<"joindate", "join_date", "signup_date">>

----------------------------------------------------------------------------
(* Exact arithmetic for the RFM score *)

\* 1 / 1e-8: the epsilon of the min-max normalisation is one unit
EpsInv == 100000000

WeightM == 6     \* 0.6, in tenths
WeightF == 4     \* 0.4, in tenths
Percent == 100   \* the factor 100 of the score

\* A quantity is a little-endian numeral in base EpsInv: <<c0, c1, c2>> is
\* c0 + c1 * EpsInv + c2 * EpsInv^2.  An integer x counted in units of
\* 1e-8 is <<0, x>>, and 1e-8 itself is <<1>>.
RECURSIVE CarryFrom(_, _)
CarryFrom(a, c) ==
    IF Len(a) = 0
    THEN (IF c = 0 THEN <<>> ELSE <<c>>)
    ELSE <<(a[1] + c) % EpsInv>> \o CarryFrom(Tail(a), (a[1] + c) \div EpsInv)

RECURSIVE DropZeros(_)
DropZeros(a) ==
    IF Len(a) > 0 /\ a[Len(a)] = 0 THEN DropZeros(SubSeq(a, 1, Len(a) - 1)) ELSE a

Canon(a) == DropZeros(CarryFrom(a, 0))

Limb(a, i) == IF i \in DOMAIN a THEN a[i] ELSE 0

LAdd(a, b) ==
    [i \in 1..(IF Len(a) > Len(b) THEN Len(a) ELSE Len(b)) |-> Limb(a, i) + Limb(b, i)]

LScale(k, a) == [i \in DOMAIN a |-> k * a[i]]

RECURSIVE SumTo(_, _, _, _)
SumTo(a, b, k, i) ==
    IF i > k - 1 THEN 0
    ELSE Limb(a, i) * Limb(b, k - i) + SumTo(a, b, k, i + 1)

LMul(a, b) ==
    IF Len(a) = 0 \/ Len(b) = 0 THEN <<>>
    ELSE [k \in 1..(Len(a) + Len(b) - 1) |-> SumTo(a, b, k + 1, 1)]

RECURSIVE LexLeq(_, _, _)
LexLeq(a, b, i) ==
    IF i = 0 THEN TRUE
    ELSE IF a[i] # b[i] THEN a[i] < b[i]
    ELSE LexLeq(a, b, i - 1)

LLeq(a, b) ==
    LET x == Canon(a)
        y == Canon(b)
    IN  IF Len(x) # Len(y) THEN Len(x) < Len(y) ELSE LexLeq(x, y, Len(x))

LEq(a, b) == Canon(a) = Canon(b)

IsEven(t) == t % 2 = 0

\* the largest t in lo..hi with t * den <= num, by bisection
RECURSIVE FloorDiv(_, _, _, _)
FloorDiv(num, den, lo, hi) ==
    IF lo >= hi THEN lo
    ELSE IF LLeq(LScale((lo + hi + 1) \div 2, den), num)
         THEN FloorDiv(num, den, (lo + hi + 1) \div 2, hi)
         ELSE FloorDiv(num, den, lo, (lo + hi + 1) \div 2 - 1)

\* np.round of the quotient num / den (at most maxT) to an integer: the
\* nearest one, a tie going to the even neighbour
RoundDiv(num, den, maxT) ==
    LET up == FloorDiv(LAdd(LScale(2, num), den), LScale(2, den), 0, maxT)
    IN  IF LEq(LScale(2 * up, den), LAdd(LScale(2, num), den)) /\ ~IsEven(up)
        THEN up - 1
        ELSE up

\* values of a numeric column without NaN
NumValues(col) == {col[i].v : i \in DOMAIN col}

SetMin(S) == CHOOSE x \in S : \A y \in S : x <= y
SetMax(S) == CHOOSE x \in S : \A y \in S : y <= x

\* The normalisation with the epsilon forgotten: the denominator is
\* max - min alone
MinMaxNormNoEps(x, lo, hi) == [num |-> <<0, x - lo>>, den |-> <<0, hi - lo>>]

\* (x - min) / (max - min + 1e-8) as a fraction of two quantities
MinMaxNorm(x, lo, hi) == [num |-> <<0, x - lo>>, den |-> <<1, hi - lo>>]

\* The score with the two weights exchanged
RfmScoreSwapped(mn, fn) ==
    RoundDiv(LScale(Percent, LAdd(LScale(WeightF, LMul(mn.num, fn.den)),
                                   LScale(WeightM, LMul(fn.num, mn.den)))),
             LMul(mn.den, fn.den), Percent * (WeightM + WeightF))

\* np.round(100 * (0.6 * m_norm + 0.4 * f_norm), 1), in tenths
RfmScore(mn, fn) ==
    RoundDiv(LScale(Percent, LAdd(LScale(WeightM, LMul(mn.num, fn.den)),
                                   LScale(WeightF, LMul(fn.num, mn.den)))),
             LMul(mn.den, fn.den), Percent * (WeightM + WeightF))

\* 0 / 0 of two float arrays is NaN (numpy warns, it does not raise)
ScoreCell(mn, fn) ==
    IF Canon(mn.den) = <<>> \/ Canon(fn.den) = <<>>
    THEN NaN
    ELSE Cell("dec1", RfmScore(mn, fn))

\* Series.fillna(0)
FillNa0(col) == [i \in DOMAIN col |-> IF col[i].kind = "nan" THEN Cell("num", 0) ELSE col[i]]

----------------------------------------------------------------------------
(* Age groups *)

bins == <<0, 18, 25, 35, 45, 55, 999>>
labels == <<"<18", "18-24", "25-34", "35-44", "45-54", "55+">>

\* The bin search of pd.cut with right=True: intervals closed on the right
BinOfRightClosed(x) == Cardinality({i \in DOMAIN bins : bins[i] < x})

\* The bin search of pd.cut with right=False (searchsorted, side="right"):
\* the number of edges that are <= x
BinOf(x) == Cardinality({i \in DOMAIN bins : bins[i] <= x})

\* pd.cut(..., bins=bins, labels=labels, right=False) on one value: a value
\* below the first edge, at or above the last edge, or missing has no category
CutCell(c) ==
    IF c.kind # "num" THEN NaN
    ELSE IF BinOf(c.v) = 0 \/ BinOf(c.v) = Len(bins) THEN NaN
    ELSE Cell("cat", BinOf(c.v))

----------------------------------------------------------------------------
(* The script *)

Blank == [created |-> FALSE, populated |-> FALSE, column |-> "", title |-> ""]

Drawn(c, t) == [created |-> TRUE, populated |-> TRUE, column |-> c, title |-> t]

Empty == [created |-> TRUE, populated |-> FALSE, column |-> "", title |-> ""]

\* An uncaught exception e: the interpreter prints the traceback and the
\* process ends with status 1
Raise(e) ==
    /\ pc' = "raised"
    /\ raised' = e
    /\ exitCode' = 1

\* The except branch taken with the exit forgotten: the script goes on
LoadMissingNoExit ==
    /\ out' = out \o <<"Loading data...",
                       "Error: File 'customers.csv' not found.",
                       "Example expected columns: CustomerID, Name, Age, Gender, City, JoinDate, AnnualSpend, Orders, Category">>
    /\ pc' = "normalize"
    /\ UNCHANGED <<df, exitCode>>

\* except FileNotFoundError: two lines and exit(1)
LoadMissing ==
    /\ out' = out \o <<"Loading data...",
                       "Error: File 'customers.csv' not found.",
                       "Example expected columns: CustomerID, Name, Age, Gender, City, JoinDate, AnnualSpend, Orders, Category">>
    /\ exitCode' = 1
    /\ pc' = "exited"
    /\ UNCHANGED df

LoadFound ==
    /\ df' = ReadCsv(csv)
    /\ out' = out \o <<"Loading data...", "Dataset shape:", "Columns:">>
    /\ pc' = "normalize"
    /\ UNCHANGED exitCode

\* 1. Load: print, read the file or report its absence
Load ==
    /\ pc = "load"
    /\ IF fileExists THEN LoadFound ELSE LoadMissing
    /\ UNCHANGED <<fileExists, csv, raised, today, slots, poVars>>

\* Standardize column names
NormalizeColumns ==
    /\ pc = "normalize"
    /\ df' = [df EXCEPT !.columns = NormalizeLabels(df.columns)]
    /\ pc' = "dates"
    /\ UNCHANGED <<fileExists, csv, out, exitCode, raised, today, slots, poVars>>

date_cols(t) == SelectSeq(t.columns, IsDateLabel)

\* Guess date column: only date_cols[0] is parsed
ParseDates ==
    /\ pc = "dates"
    /\ df' = IF Len(date_cols(df)) > 0
             THEN SetCol(df, date_cols(df)[1], "datetime64",
                         [r \in 1..df.n |-> ToDatetimeCell(Column(df, date_cols(df)[1])[r])])
             ELSE df
    /\ pc' = "numeric"
    /\ UNCHANGED <<fileExists, csv, out, exitCode, raised, today, slots, poVars>>

\* Guess numeric columns: every listed column that is present is coerced
CoerceNumeric ==
    /\ pc = "numeric"
    /\ df' = [df EXCEPT
                !.dtypes = [i \in DOMAIN df.columns |->
                              IF df.columns[i] \in Range(num_cols) THEN "float64"
                              ELSE df.dtypes[i]],
                !.data = [i \in DOMAIN df.columns |->
                              IF df.columns[i] \in Range(num_cols)
                              THEN [r \in 1..df.n |-> ToNumericCell(df.data[i][r])]
                              ELSE df.data[i]]]
    /\ pc' = "tenure"
    /\ UNCHANGED <<fileExists, csv, out, exitCode, raised, today, slots, poVars>>

HasTenureCol(t) == \E i \in DOMAIN tenure_cols : HasCol(t, tenure_cols[i])

\* next(c for c in [...] if c in df.columns), for a table that has one
TenureCol(t) ==
    tenure_cols[CHOOSE i \in DOMAIN tenure_cols :
                    /\ HasCol(t, tenure_cols[i])
                    /\ \A j \in 1..(i - 1) : ~HasCol(t, tenure_cols[j])]

\* (today - value).days, clipped below at 0; NaT gives NaN
DaysCell(now, c) ==
    IF c.kind = "ts"
    THEN Cell("num", IF (now - c.v) \div TicksPerDay < 0 THEN 0
                     ELSE (now - c.v) \div TicksPerDay)
    ELSE NaN

\* Days as customer.  today - df[date_col] is defined for a datetime column
\* only: on a column of strings the subtraction raises TypeError, and on a
\* column without rows the .dt accessor raises AttributeError.
Tenure ==
    /\ pc = "tenure"
    /\ out' = Append(out, "Creating features...")
    /\ IF HasTenureCol(df)
       THEN \E now \in {10, 11} :
              /\ today' = now
              /\ IF DType(df, TenureCol(df)) = "datetime64"
                 THEN /\ df' = SetCol(df, "days_as_customer", "float64",
                                      [r \in 1..df.n |->
                                          DaysCell(now, Column(df, TenureCol(df))[r])])
                      /\ pc' = "rfm"
                      /\ UNCHANGED <<raised, exitCode>>
                 ELSE /\ Raise(IF df.n = 0 THEN "AttributeError" ELSE "TypeError")
                      /\ UNCHANGED df
       ELSE /\ pc' = "rfm"
            /\ UNCHANGED <<df, today, raised, exitCode>>
    /\ UNCHANGED <<fileExists, csv, slots, poVars>>

\* df['monetary'] = df['annual_spend'].fillna(0), then
\* df['frequency'] = df['orders'].fillna(0)
WithMonetaryFrequency(t) ==
    LET t1 == SetCol(t, "monetary", "float64", FillNa0(Column(t, "annual_spend")))
    IN  SetCol(t1, "frequency", "float64", FillNa0(Column(t1, "orders")))

\* m_norm and f_norm of row r of a table that has monetary and frequency
MNorm(t, r) ==
    MinMaxNorm(Column(t, "monetary")[r].v,
               SetMin(NumValues(Column(t, "monetary"))),
               SetMax(NumValues(Column(t, "monetary"))))

FNorm(t, r) ==
    MinMaxNorm(Column(t, "frequency")[r].v,
               SetMin(NumValues(Column(t, "frequency"))),
               SetMax(NumValues(Column(t, "frequency"))))

\* Simple RFM-like score.  np.nanmin of an empty array raises ValueError,
\* after monetary and frequency have been assigned.
Rfm ==
    /\ pc = "rfm"
    /\ IF HasCol(df, "orders") /\ HasCol(df, "annual_spend")
       THEN IF df.n = 0
            THEN /\ df' = WithMonetaryFrequency(df)
                 /\ Raise("ValueError")
            ELSE /\ df' = SetCol(WithMonetaryFrequency(df), "rfm_score", "float64",
                                 [r \in 1..df.n |->
                                     ScoreCell(MNorm(WithMonetaryFrequency(df), r),
                                               FNorm(WithMonetaryFrequency(df), r))])
                 /\ pc' = "age"
                 /\ UNCHANGED <<raised, exitCode>>
       ELSE /\ pc' = "age"
            /\ UNCHANGED <<df, raised, exitCode>>
    /\ UNCHANGED <<fileExists, csv, out, today, slots, poVars>>

\* The age-group step with its guard forgotten: the column is assigned
\* whether or not age is there
AgeGroupUnguarded ==
    /\ pc = "age"
    /\ df' = SetCol(df, "age_group", "category",
                    [r \in 1..df.n |->
                        IF HasCol(df, "age") THEN CutCell(Column(df, "age")[r]) ELSE NaN])
    /\ out' = Append(out, "Done.")
    /\ pc' = "slot1"
    /\ UNCHANGED <<fileExists, csv, exitCode, raised, today, slots, poVars>>

\* Age groups
AgeGroup ==
    /\ pc = "age"
    /\ df' = IF HasCol(df, "age")
             THEN SetCol(df, "age_group", "category",
                         [r \in 1..df.n |-> CutCell(Column(df, "age")[r])])
             ELSE df
    /\ out' = Append(out, "Done.")
    /\ pc' = "slot1"
    /\ UNCHANGED <<fileExists, csv, exitCode, raised, today, slots, poVars>>

\* One axes of the figure: created by fig.add_subplot, drawn into when its
\* condition holds
Render(i, from, to, plot) ==
    /\ pc = from
    /\ slots' = [slots EXCEPT ![i] = plot]
    /\ pc' = to
    /\ UNCHANGED <<fileExists, csv, df, out, exitCode, raised, today, poVars>>

\* 1. Age histogram
Slot1 ==
    Render(1, "slot1", "slot2",
           IF HasCol(df, "age") THEN Drawn("age", "Age Distribution") ELSE Empty)

\* 2. Gender pie
Slot2 ==
    Render(2, "slot2", "slot3",
           IF HasCol(df, "gender") THEN Drawn("gender", "Gender Distribution") ELSE Empty)

\* 3. Annual spend histogram
Slot3 ==
    Render(3, "slot3", "slot4",
           IF HasCol(df, "annual_spend")
           THEN Drawn("annual_spend", "Annual Spend Distribution") ELSE Empty)

\* 4. Avg spend by age group (bar)
Slot4 ==
    Render(4, "slot4", "slot5",
           IF HasCol(df, "age_group") /\ HasCol(df, "annual_spend")
           THEN Drawn("annual_spend", "Avg Annual Spend by Age Group") ELSE Empty)

\* Slot 5 with the two branches exchanged: category is looked at first
Slot5CategoryFirst ==
    Render(5, "slot5", "slot6",
           IF HasCol(df, "category")
           THEN Drawn("category", "Number of Customers by Category (Top 8)")
           ELSE IF HasCol(df, "city")
           THEN Drawn("city", "Number of Customers by City (Top 10)")
           ELSE Empty)

\* 5. Bar chart: number of customers by city, else by category
Slot5 ==
    Render(5, "slot5", "slot6",
           IF HasCol(df, "city")
           THEN Drawn("city", "Number of Customers by City (Top 10)")
           ELSE IF HasCol(df, "category")
           THEN Drawn("category", "Number of Customers by Category (Top 8)")
           ELSE Empty)

\* 6. Pie chart: top 5 cities, else top 5 categories
Slot6 ==
    Render(6, "slot6", "finish",
           IF HasCol(df, "city")
           THEN Drawn("city", "Top 5 Cities by Customer Count")
           ELSE IF HasCol(df, "category")
           THEN Drawn("category", "Top 5 Categories by Customer Count")
           ELSE Empty)

\* plt.tight_layout(); plt.show(); the last line; normal end of the process
Finish ==
    /\ pc = "finish"
    /\ out' = Append(out, "Analysis complete.")
    /\ exitCode' = 0
    /\ pc' = "done"
    /\ UNCHANGED <<fileExists, csv, df, raised, today, slots, poVars>>

Next ==
    \/ Load
    \/ NormalizeColumns
    \/ ParseDates
    \/ CoerceNumeric
    \/ Tenure
    \/ Rfm
    \/ AgeGroup
    \/ Slot1
    \/ Slot2
    \/ Slot3
    \/ Slot4
    \/ Slot5
    \/ Slot6
    \/ Finish

----------------------------------------------------------------------------
(* The combat class *)

InitialHealth == 100
AttackPower == 20

Names == {"Po", "Tai Lung"}

NoAttack == [attacker |-> "", target |-> ""]

\* Po.__init__
NewPo(name) == [name |-> name, health |-> InitialHealth, attack_power |-> AttackPower]

\* Po.is_alive
is_alive(o) == o.health > 0

\* attack with the damage taken from the attacker instead of the target
AttackSelf(a, t) ==
    /\ attacks < MaxAttacks
    /\ \E damage \in 0..po[a].attack_power :
          po' = [po EXCEPT ![a].health = @ - damage]
    /\ lastAttack' = [attacker |-> a, target |-> t]
    /\ attacks' = attacks + 1
    /\ UNCHANGED pipeVars

\* Po.attack: a.attack(t), whatever the health of either
Attack(a, t) ==
    /\ attacks < MaxAttacks
    /\ \E damage \in 0..po[a].attack_power :
          po' = [po EXCEPT ![t].health = @ - damage]
    /\ lastAttack' = [attacker |-> a, target |-> t]
    /\ attacks' = attacks + 1
    /\ UNCHANGED pipeVars

NextPo == \E a \in Names, t \in Names : Attack(a, t)

----------------------------------------------------------------------------
(* Input files and initial states *)

\* sequences without repetition of 1 to k elements of S
RECURSIVE SeqsUpTo(_, _)
SeqsUpTo(S, k) ==
    IF k = 0 THEN {<<>>}
    ELSE LET P == SeqsUpTo(S, k - 1)
         IN  P \cup {Append(h, x) : h \in {g \in P : Len(g) = k - 1}, x \in S}

Headers(S, k) ==
    {h \in SeqsUpTo(S, k) :
        /\ Len(h) > 0
        /\ \A i \in DOMAIN h, j \in DOMAIN h : i # j => h[i] # h[j]}

\* Structural family: any header of up to MaxCols of these raw labels (no
\* two of them normalise to the same label), and up to MaxRows rows, all
\* alike, whose fields suit the column: a date, a numeral, a word.
RawLabels ==
    {"Age", " Gender ", "City", "Category", "Orders", "Annual Spend",
     "JoinDate", "signup_date", "Birth Date", "days_as_customer", "age_group"}

StructCell(label) ==
    IF IsDateLabel(NormalizeLabel(label)) THEN Cell("date", 3)
    ELSE IF NormalizeLabel(label) \in Range(num_cols) THEN Cell("num", 1)
    ELSE TextCell

StructFiles(maxCols, maxRows) ==
    {[columns |-> h, n |-> n,
      data |-> [i \in DOMAIN h |-> [r \in 1..n |-> StructCell(h[i])]]] :
        h \in Headers(RawLabels, maxCols), n \in 0..maxRows}

\* Tenure family: date-like columns only; a field is a past date, a future
\* date or text that is no date.
DateLabels == {"JoinDate", "Join Date", "signup_date", "Birth Date"}

DateCells == {Cell("date", 3), Cell("date", 14), TextCell}

FilesOver(h, n, cells) ==
    {[columns |-> h, n |-> n, data |-> d] : d \in [DOMAIN h -> [1..n -> cells]]}

TenureFiles(maxCols, maxRows) ==
    UNION {FilesOver(h, n, DateCells) :
              h \in Headers(DateLabels, maxCols), n \in 0..maxRows}

\* RFM family: the two source columns
OrderCells == {EmptyCell, Cell("num", 1), Cell("num", 2), Cell("num", 3)}
SpendCells == {TextCell, Cell("num", 10), Cell("num", 30)}

RfmFiles(maxRows) ==
    UNION {{[columns |-> <<"Orders", "Annual Spend">>, n |-> n, data |-> <<o, a>>] :
               o \in [1..n -> OrderCells], a \in [1..n -> SpendCells]} :
           n \in 0..maxRows}

\* Age family: the age column, with the ages around every edge of the bins
AgeCells ==
    {EmptyCell, TextCell} \cup
    {Cell("num", x) : x \in {-1, 0, 17, 18, 24, 25, 34, 35, 44, 45, 54, 55, 998, 999, 1000}}

AgeFiles(maxRows) == UNION {FilesOver(<<"Age">>, n, AgeCells) : n \in 0..maxRows}

\* Label family: one column with any raw label of up to MaxLabelLen of
\* these characters
LabelChars == {" ", "\t", "A", "a", "_", "-", "7"}

RECURSIVE StringsUpTo(_)
StringsUpTo(k) ==
    IF k = 0 THEN {""}
    ELSE LET P == StringsUpTo(k - 1)
         IN  P \cup {c \o w : c \in LabelChars, w \in {x \in P : Len(x) = k - 1}}

LabelFiles(maxLen) ==
    {[columns |-> <<l>>, n |-> 1, data |-> <<<<TextCell>>>>] :
        l \in {w \in StringsUpTo(maxLen) : Len(w) > 0}}

InitPo ==
    /\ po = [n \in Names |-> NewPo(n)]
    /\ attacks = 0
    /\ lastAttack = NoAttack

\* The script starts on a disk where CSV_FILE exists, with one of the given
\* contents, or does not exist
InitWith(files) ==
    /\ fileExists \in BOOLEAN
    /\ csv \in (IF fileExists THEN files ELSE {NoFile})
    /\ pc = "load"
    /\ df = NoTable
    /\ out = <<>>
    /\ exitCode = -1
    /\ raised = "none"
    /\ today = -1
    /\ slots = [i \in 1..6 |-> Blank]
    /\ InitPo

Init == InitWith(StructFiles(MaxCols, MaxRows))
InitTenure == InitWith(TenureFiles(MaxDateCols, MaxDateRows))
InitRfm == InitWith(RfmFiles(MaxRfmRows))
InitAge == InitWith(AgeFiles(MaxAgeRows))
InitLabels == InitWith(LabelFiles(MaxLabelLen))

\* The combat class is exercised on its own: the script stays at its start
InitCombat ==
    /\ fileExists = FALSE
    /\ csv = NoFile
    /\ pc = "load"
    /\ df = NoTable
    /\ out = <<>>
    /\ exitCode = -1
    /\ raised = "none"
    /\ today = -1
    /\ slots = [i \in 1..6 |-> Blank]
    /\ InitPo

Spec == Init /\ [][Next]_vars
SpecTenure == InitTenure /\ [][Next]_vars
SpecRfm == InitRfm /\ [][Next]_vars
SpecAge == InitAge /\ [][Next]_vars
SpecLabels == InitLabels /\ [][Next]_vars
SpecCombat == InitCombat /\ [][NextPo]_vars

----------------------------------------------------------------------------
(* Properties *)

\* the stages after the Feature Deriver
PostDerive == pc \in {"slot1", "slot2", "slot3", "slot4", "slot5", "slot6", "finish", "done"}

\* the tenure step has run to its end
PostTenure == pc \in {"rfm", "age"} \/ PostDerive

\* the RFM step has run to its end
PostRfm == pc = "age" \/ PostDerive

\* the column labels of the file after normalisation
InputCols == Range(NormalizeLabels(csv.columns))

MissingFileLines ==
    <<"Loading data...",
      "Error: File 'customers.csv' not found.",
      "Example expected columns: CustomerID, Name, Age, Gender, City, JoinDate, AnnualSpend, Orders, Category">>

\* C1: when the file does not exist, the run prints the file-not-found
\* line and the expected-columns line and exits with a non-zero status; no
\* table is built, no later stage runs, no chart slot is touched.
C1_MissingFileExits ==
    ~fileExists =>
        /\ pc \in {"load", "exited"}
        /\ ~df.built
        /\ raised = "none"
        /\ \A i \in 1..6 : slots[i] = Blank
        /\ pc = "load" => exitCode = -1 /\ out = <<>>
        /\ pc = "exited" => exitCode # 0 /\ exitCode # -1 /\ out = MissingFileLines

C1_Witness == ~fileExists /\ pc = "exited" /\ exitCode = 1

\* C2: for every file that exists, the run never raises: it goes through
\* every stage to the line "Analysis complete.".
C2_NeverRaises ==
    fileExists => raised = "none" /\ pc # "raised"

\* C3: column-label normalisation is idempotent: the labels the Normalizer
\* leaves are the normalised labels of the file, and normalising them again
\* returns them unchanged.
C3_NormalizeIdempotent ==
    pc = "dates" =>
        /\ df.columns = NormalizeLabels(csv.columns)
        /\ NormalizeLabels(df.columns) = df.columns

C3_Witness ==
    /\ pc = "dates"
    /\ df.columns # csv.columns
    /\ \E i \in DOMAIN csv.columns :
          /\ Contains(csv.columns[i], " ")
          /\ Contains(csv.columns[i], "A")
          /\ Contains(csv.columns[i], "-")

\* C4 as stated: after the Feature Deriver each derived column is present
\* only if its source columns are.
C4_PresentOnlyWithSources ==
    PostDerive =>
        /\ HasCol(df, "days_as_customer") => HasTenureCol(df)
        /\ \A d \in {"monetary", "frequency", "rfm_score"} :
              HasCol(df, d) => HasCol(df, "orders") /\ HasCol(df, "annual_spend")
        /\ HasCol(df, "age_group") => HasCol(df, "age")

\* C4 as amended: a derived column that is not a column of the file is
\* present only if its source columns are; a derivation whose source columns
\* are absent leaves the table as it is and raises nothing.
C4_DerivedOnlyWithSources ==
    [][/\ PostDerive' =>
            /\ HasCol(df', "days_as_customer") /\ ~HasTenureCol(df')
                  => "days_as_customer" \in InputCols
            /\ \A d \in {"monetary", "frequency", "rfm_score"} :
                  HasCol(df', d) /\ ~(HasCol(df', "orders") /\ HasCol(df', "annual_spend"))
                      => d \in InputCols
            /\ HasCol(df', "age_group") /\ ~HasCol(df', "age")
                  => "age_group" \in InputCols
       /\ pc = "tenure" /\ ~HasTenureCol(df) => df' = df /\ pc' = "rfm"
       /\ pc = "rfm" /\ ~(HasCol(df, "orders") /\ HasCol(df, "annual_spend"))
             => df' = df /\ pc' = "age"
       /\ pc = "age" /\ ~HasCol(df, "age") => df' = df /\ pc' = "slot1"
      ]_vars

C4_Witness ==
    /\ PostDerive
    /\ HasCol(df, "days_as_customer")
    /\ ~HasTenureCol(df)
    /\ HasCol(df, "age_group")
    /\ HasCol(df, "age")
    /\ "age_group" \notin InputCols

\* the date of row r of the tenure column, as the file gives it
\* (-1 when the field is no date)
FileDate(r) ==
    LET i == CHOOSE j \in DOMAIN csv.columns :
                 NormalizeLabel(csv.columns[j]) = TenureCol(df)
    IN  IF csv.data[i][r].kind = "date" THEN csv.data[i][r].v ELSE -1

\* C5: whenever one of joindate, join_date, signup_date is a column, the
\* tenure step uses the first present in that order and gives every row
\* days_as_customer = max(0, whole days from its date to now), an integer >= 0.
C5_TenureEveryRow ==
    HasTenureCol(df) /\ pc \notin {"normalize", "dates", "numeric", "tenure"} =>
        /\ PostTenure
        /\ HasCol(df, "days_as_customer")
        /\ \A r \in 1..df.n :
              /\ Column(df, "days_as_customer")[r].kind = "num"
              /\ Column(df, "days_as_customer")[r].v >= 0
              /\ \E d \in 0..today :
                    /\ Column(df, "days_as_customer")[r].v = d
                    /\ \/ d = 0 /\ today <= FileDate(r)
                       \/ /\ d * TicksPerDay <= today - FileDate(r)
                          /\ today - FileDate(r) < (d + 1) * TicksPerDay


\* the number a value counts as in the RFM step: a null counts 0
ValueOr0(c) == IF c.kind = "num" THEN c.v ELSE 0

\* t is num / den rounded to the nearest integer
IsNearest(t, num, den) ==
    /\ LLeq(LScale(2 * t, den), LAdd(LScale(2, num), den))
    /\ LLeq(LScale(2, num), LAdd(LScale(2 * t, den), den))

\* the table of the example: orders = [1, 3], annual_spend = [10, 30]
IsRfmExample ==
    /\ fileExists
    /\ csv.n = 2
    /\ Column(df, "orders") = <<Cell("num", 1), Cell("num", 3)>>
    /\ Column(df, "annual_spend") = <<Cell("num", 10), Cell("num", 30)>>

\* the fraction is 1 exactly
IsOne(q) == LEq(q.num, q.den)

\* the fraction is below 1 by less than 1e-8:  (den - num) < 1e-8 * den
IsJustBelowOne(q) ==
    /\ ~LLeq(q.den, q.num)
    /\ ~LLeq(q.den, LMul(<<0, 1>>, LAdd(q.den, LScale(-1, q.num))))

IsZero(q) == Canon(q.num) = <<>>

\* C6 as stated, on its example: for orders = [1, 3] and annual_spend =
\* [10, 30] the normalised columns are [0, 1] and the scores [0.0, 100.0].
C6_ExampleNormsAreOne ==
    PostRfm /\ IsRfmExample =>
        /\ IsZero(MNorm(df, 1)) /\ IsOne(MNorm(df, 2))
        /\ IsZero(FNorm(df, 1)) /\ IsOne(FNorm(df, 2))
        /\ Column(df, "rfm_score") = <<Cell("dec1", 0), Cell("dec1", 1000)>>

\* C6 as amended: with both columns present, monetary and frequency are
\* the two columns with 0 for every null, and every row's rfm_score is
\* 100 * (0.6 * m + 0.4 * f) rounded to one decimal, m and f being
\* (x - min) / (max - min + 1e-8) over all rows; on the example the
\* normalised columns are 0 and a value below 1 by less than 1e-8, and the
\* scores are 0.0 and 100.0.
C6_RfmScore ==
    PostRfm /\ HasCol(df, "orders") /\ HasCol(df, "annual_spend") =>
        LET M == [r \in 1..df.n |-> ValueOr0(Column(df, "annual_spend")[r])]
            F == [r \in 1..df.n |-> ValueOr0(Column(df, "orders")[r])]
            mlo == SetMin(Range(M))
            mhi == SetMax(Range(M))
            flo == SetMin(Range(F))
            fhi == SetMax(Range(F))
        IN  /\ Column(df, "monetary") = [r \in 1..df.n |-> Cell("num", M[r])]
            /\ Column(df, "frequency") = [r \in 1..df.n |-> Cell("num", F[r])]
            /\ \A r \in 1..df.n :
                  /\ Column(df, "rfm_score")[r].kind = "dec1"
                  /\ IsNearest(Column(df, "rfm_score")[r].v,
                               LScale(100,
                                   LAdd(LScale(6, LMul(<<0, M[r] - mlo>>, <<1, fhi - flo>>)),
                                        LScale(4, LMul(<<0, F[r] - flo>>, <<1, mhi - mlo>>)))),
                               LMul(<<1, mhi - mlo>>, <<1, fhi - flo>>))
            /\ IsRfmExample =>
                  /\ IsZero(MNorm(df, 1)) /\ IsJustBelowOne(MNorm(df, 2))
                  /\ IsZero(FNorm(df, 1)) /\ IsJustBelowOne(FNorm(df, 2))
                  /\ Column(df, "rfm_score") = <<Cell("dec1", 0), Cell("dec1", 1000)>>

C6_Witness ==
    /\ PostRfm
    /\ IsRfmExample
    /\ Column(df, "rfm_score") = <<Cell("dec1", 0), Cell("dec1", 1000)>>

\* every value of the column is the same (the same number, or all null)
AllEqual(col) == \A r \in DOMAIN col : col[r] = col[1]

\* C7: when all orders are equal and all annual_spend are equal, the RFM
\* step raises nothing and rfm_score is 0.0 in every row.
C7_EqualValuesScoreZero ==
    /\ fileExists /\ csv.n > 0 /\ pc = "raised" => raised # "ZeroDivisionError"
    /\ fileExists /\ csv.n > 0 /\ pc \notin {"load", "normalize", "dates", "numeric", "tenure", "rfm"}
       /\ AllEqual(Column(df, "orders")) /\ AllEqual(Column(df, "annual_spend")) =>
           /\ PostRfm
           /\ \A r \in 1..df.n : Column(df, "rfm_score")[r] = Cell("dec1", 0)

C7_Witness ==
    /\ PostRfm
    /\ csv.n = 2
    /\ Column(df, "orders") = <<Cell("num", 3), Cell("num", 3)>>
    /\ Column(df, "annual_spend") = <<Cell("num", 30), Cell("num", 30)>>
    /\ Column(df, "rfm_score") = <<Cell("dec1", 0), Cell("dec1", 0)>>

\* the half-open intervals and their labels
AgeIntervals ==
    <<[lo |-> 0, hi |-> 18, label |-> "<18"],
      [lo |-> 18, hi |-> 25, label |-> "18-24"],
      [lo |-> 25, hi |-> 35, label |-> "25-34"],
      [lo |-> 35, hi |-> 45, label |-> "35-44"],
      [lo |-> 45, hi |-> 55, label |-> "45-54"],
      [lo |-> 55, hi |-> 999, label |-> "55+"]>>

\* the label of an age_group cell, "" when it is missing
GroupLabel(c) == IF c.kind = "cat" THEN labels[c.v] ELSE ""

\* C8: every age lies in the bucket whose half-open interval contains it
\* (17 in <18, 18 in 18-24), and an age outside [0, 999), 999 included, or
\* a null age has no age_group.
C8_AgeBuckets ==
    PostDerive /\ HasCol(df, "age") =>
        \A r \in 1..df.n :
            LET a == Column(df, "age")[r]
                g == Column(df, "age_group")[r]
            IN  /\ \A k \in DOMAIN AgeIntervals :
                      a.kind = "num" /\ AgeIntervals[k].lo <= a.v /\ a.v < AgeIntervals[k].hi
                          => GroupLabel(g) = AgeIntervals[k].label
                /\ a.kind # "num" \/ a.v < 0 \/ a.v >= 999 => g = NaN
                /\ a = Cell("num", 17) => GroupLabel(g) = "<18"
                /\ a = Cell("num", 18) => GroupLabel(g) = "18-24"
                /\ a = Cell("num", 999) => g = NaN

C8_Witness ==
    /\ PostDerive
    /\ df.n = 2
    /\ Column(df, "age") = <<Cell("num", 18), Cell("num", 999)>>
    /\ GroupLabel(Column(df, "age_group")[1]) = "18-24"
    /\ Column(df, "age_group")[2] = NaN

\* C9: once the figure is complete, each slot is populated exactly when its
\* columns are present, and slots 5 and 6 draw city whenever city is
\* present, category only when city is absent.
C9_SlotsByPresence ==
    pc \in {"finish", "done"} =>
        /\ \A i \in 1..6 : slots[i].created
        /\ slots[1].populated <=> HasCol(df, "age")
        /\ slots[2].populated <=> HasCol(df, "gender")
        /\ slots[3].populated <=> HasCol(df, "annual_spend")
        /\ slots[4].populated <=> HasCol(df, "age_group") /\ HasCol(df, "annual_spend")
        /\ \A i \in {5, 6} :
              /\ slots[i].populated <=> HasCol(df, "city") \/ HasCol(df, "category")
              /\ HasCol(df, "city") => slots[i].column = "city"
              /\ slots[i].column = "category" => ~HasCol(df, "city")
              /\ ~slots[i].populated => slots[i] = Empty

C9_Witness ==
    /\ pc = "done"
    /\ HasCol(df, "city")
    /\ HasCol(df, "category")
    /\ slots[5].column = "city"
    /\ slots[6].column = "city"
    /\ ~slots[1].populated

\* C10: an attack between distinct objects changes only the target's
\* health, lowering it by an integer from 0 to the attacker's attack_power;
\* names and attack powers never change, health never exceeds 100, may go
\* below 0, and is_alive is exactly health > 0.
C10_AttackFrame ==
    [][LET a == lastAttack'.attacker
           t == lastAttack'.target
       IN  /\ a \in Names /\ t \in Names
           /\ a # t =>
                 /\ po'[a] = po[a]
                 /\ po[t].health - po'[t].health \in 0..po[a].attack_power
                 /\ po[t].health - po'[t].health \in 0..20
                 /\ \A n \in Names \ {t} : po'[n] = po[n]
           /\ \A n \in Names :
                 /\ po'[n].name = n
                 /\ po'[n].attack_power = 20
                 /\ po'[n].health <= 100
                 /\ is_alive(po'[n]) <=> po'[n].health > 0
      ]_vars

C10_Witness ==
    /\ lastAttack = [attacker |-> "Po", target |-> "Tai Lung"]
    /\ po["Tai Lung"].health < 0
    /\ ~is_alive(po["Tai Lung"])
    /\ po["Po"].health = 100

====
